---------------------------- MODULE Spec2Model ----------------------------
(***************************************************************************)
(* Structure superimposition (biopython/structure/superimpose.py) and the  *)
(* RCSB downloader (biotite/database/rcsb/download.py) as state machines.  *)
(*                                                                         *)
(* Coordinates are integer 3-vectors.  numpy arrays are objects with an    *)
(* identity: the variable heap maps an array id (an index) to the array's  *)
(* content, so that an in-place operation (-=, +=) on an alias of a        *)
(* caller's array is seen in the caller's array.                           *)
(***************************************************************************)
EXTENDS Integers, Sequences, FiniteSets, TLC

VARIABLES
    lapack,     \* which of the valid decompositions this build's SVD returns
    call,       \* the last call: operation and arguments (references into pre)
    pre,        \* the heap of arrays when the call was made
    heap,       \* the heap of arrays now
    ret,        \* how the last superimpose() call ended
    applied,    \* how the last apply_superimposition() call ended
    dirExists,  \* whether the target directory exists
    disk,       \* the files of the target directory: content, or Absent
    fcall,      \* the last fetch() call: arguments, server responses, disk then
    fret,       \* how the last fetch() call ended, and the requests it made
    now,        \* time.time(), in seconds
    cls,        \* the class attributes of BlastOnline
    self,       \* the BlastOnline instance, or None before it is constructed
    pc,         \* where the caller is: idle, or inside join()
    contacts,   \* the requests sent to the BLAST server so far
    readySeen,  \* whether a status poll has reported READY
    bop         \* the last BlastOnline operation or step and what it did

(***************************************************************************)
(* Bounds of the model.                                                    *)
(***************************************************************************)
MaxStack == 2       \* models in an AtomArrayStack
MaxPolicy == 3      \* SVD selection policies tried
MaxIds == 2         \* PDB IDs in one fetch() call
MaxFiles == 2       \* files in the target directory before a fetch() call
MaxElapsed == 10    \* seconds a BlastOnline instance is followed for
MaxLatency == 1     \* seconds a request to the BLAST server takes
MaxOversleep == 1   \* seconds time.sleep() may take longer than asked
MaxContacts == 4    \* requests a caller sends outside join()

None == [type |-> "NoneType"]

\* F applied to the value of e, with e evaluated once
Bind(e, F(_)) == CHOOSE r \in {F(x) : x \in {e}} : TRUE

(***************************************************************************)
(* Linear algebra on integer vectors and 3x3 matrices.                     *)
(***************************************************************************)
Dim == 1..3

Abs(n) == IF n < 0 THEN -n ELSE n

RECURSIVE SumTo(_, _)
SumTo(f, n) == IF n = 0 THEN 0 ELSE f[n] + SumTo(f, n - 1)

VecAdd(a, b) == [j \in Dim |-> a[j] + b[j]]
VecSub(a, b) == [j \in Dim |-> a[j] - b[j]]
VecNeg(a) == [j \in Dim |-> -a[j]]

\* arr -= v, arr += v: the new content of the array
ArrSub(arr, v) == [n \in 1..Len(arr) |-> VecSub(arr[n], v)]
ArrAdd(arr, v) == [n \in 1..Len(arr) |-> VecAdd(arr[n], v)]

Transpose(m) == [i \in Dim |-> [j \in Dim |-> m[j][i]]]

\* np.dot of two 3x3 matrices
MatMul(a, b) ==
    [i \in Dim |-> [j \in Dim |->
        a[i][1] * b[1][j] + a[i][2] * b[2][j] + a[i][3] * b[3][j]]]

\* np.dot(coord, rotation): every point, as a row vector, times the matrix
ArrDot(arr, m) ==
    [n \in 1..Len(arr) |-> [j \in Dim |->
        arr[n][1] * m[1][j] + arr[n][2] * m[2][j] + arr[n][3] * m[3][j]]]

\* np.dot(y.T, x) for two N x 3 arrays
Cov(y, x) ==
    [i \in Dim |-> [j \in Dim |->
        SumTo([n \in 1..Len(y) |-> y[n][i] * x[n][j]], Len(y))]]

\* np.linalg.det
Det(m) ==
      m[1][1] * (m[2][2] * m[3][3] - m[2][3] * m[3][2])
    - m[1][2] * (m[2][1] * m[3][3] - m[2][3] * m[3][1])
    + m[1][3] * (m[2][1] * m[3][2] - m[2][2] * m[3][1])

Identity == <<<<1, 0, 0>>, <<0, 1, 0>>, <<0, 0, 1>>>>

Diag(s) == [i \in Dim |-> [j \in Dim |-> IF i = j THEN s[i] ELSE 0]]

(***************************************************************************)
(* np.linalg.svd(cov) returns (v, s, w) with cov = v . diag(s) . w, v and  *)
(* w orthogonal and s non-negative in descending order.  The model works   *)
(* on the integer grid: the orthogonal matrices are the 48 signed          *)
(* permutation matrices, and an input is representable when its            *)
(* covariance has such a decomposition.  Where several decompositions are  *)
(* valid (singular values that are zero or repeated), which one comes back *)
(* is the build's choice: lapack selects it, the same for every call.      *)
(***************************************************************************)
Perms == {p \in [Dim -> Dim] : \A i, j \in Dim : p[i] = p[j] => i = j}

Ortho ==
    {[i \in Dim |-> [j \in Dim |-> IF j = p[i] THEN sg[i] ELSE 0]] :
        p \in Perms, sg \in [Dim -> {-1, 1}]}

\* the singular values of a matrix with at most one non-zero per row
SortDesc3(a, b, c) ==
    LET hi == IF a >= b /\ a >= c THEN a ELSE IF b >= c THEN b ELSE c
        lo == IF a <= b /\ a <= c THEN a ELSE IF b <= c THEN b ELSE c
    IN  <<hi, a + b + c - hi - lo, lo>>

SingularValues(cov) ==
    LET r == [i \in Dim |-> Abs(cov[i][1]) + Abs(cov[i][2]) + Abs(cov[i][3])]
    IN  SortDesc3(r[1], r[2], r[3])

\* every (v, s, w) the postcondition of np.linalg.svd allows
SVDs(cov) ==
    UNION {
      UNION {
        {<<v, s, w>> : w \in
            {w \in Ortho : \A i, j \in Dim : m[i][j] = s[i] * w[i][j]}}
        : m \in {MatMul(Transpose(v), cov)}}     \* must be diag(s) . w
      : v \in Ortho, s \in {SingularValues(cov)}}

MatKey(m) ==
    SumTo([k \in 1..9 |->
              (m[((k - 1) \div 3) + 1][((k - 1) % 3) + 1] + 1) * (k * k + 1)], 9)

PolicyKey(d, pol) == (MatKey(d[1]) * (2 * pol + 1) + MatKey(d[3]) * (5 * pol + 3)) % 97

svd(cov, pol) ==
    Bind(SVDs(cov), LAMBDA all :
    Bind({PolicyKey(d, pol) : d \in all}, LAMBDA keys :
    Bind(CHOOSE k \in keys : \A j \in keys : k <= j, LAMBDA least :
    CHOOSE d \in all : PolicyKey(d, pol) = least)))

Representable(cov) == \E d \in SVDs(cov) : TRUE

(***************************************************************************)
(* Collaborators from atoms.py and geometry.py.                            *)
(***************************************************************************)
ColumnSum(arr, j) == SumTo([n \in 1..Len(arr) |-> arr[n][j]], Len(arr))

\* geometry.centroid: the arithmetic mean position (exact on the inputs drawn)
centroid(arr) == [j \in Dim |-> ColumnSum(arr, j) \div Len(arr)]

ExactCentroid(arr) ==
    /\ Len(arr) > 0
    /\ \A j \in Dim : ColumnSum(arr, j) % Len(arr) = 0

\* a new array on the heap
Alloc(h, content) == [heap |-> Append(h, content), ref |-> Len(h) + 1]

\* AtomArray.copy(): a new AtomArray with its own coordinate array
AtomArrayCopy(h, atoms) ==
    [heap |-> Append(h, h[atoms.coord]),
     obj |-> [type |-> "AtomArray", coord |-> Len(h) + 1,
              atom_name |-> atoms.atom_name]]

\* iterating an AtomArrayStack: model i as an AtomArray on the stack's own data
StackMember(stk, i) ==
    [type |-> "AtomArray", coord |-> stk.coord[i], atom_name |-> stk.atom_name]

\* atoms.stack(list of AtomArray): a stack with new coordinate arrays
stack(h, arrays) ==
    [heap |-> h \o [k \in 1..Len(arrays) |-> h[arrays[k].coord]],
     obj |-> [type |-> "AtomArrayStack",
              coord |-> [k \in 1..Len(arrays) |-> Len(h) + k],
              atom_name |-> IF arrays = <<>> THEN <<>> ELSE arrays[1].atom_name]]

(***************************************************************************)
(* superimpose.py                                                          *)
(***************************************************************************)
\* the names bound in the module: its imports (lines 10-12) and its defs
ModuleNames ==
    {"np", "centroid", "Atom", "AtomArray", "AtomArrayStack", "stack",
     "superimpose", "_superimpose", "apply_superimposition"}

\* evaluating `raise Name(...)`: an unbound name is a NameError
RaiseNamed(name) == IF name \in ModuleNames THEN name ELSE "NameError"

Return(h, value) == [heap |-> h, status |-> "return", exc |-> "", value |-> value]
Raise(h, exc) == [heap |-> h, status |-> "raise", exc |-> exc, value |-> None]

\* mobile.atom_name == " CA "
CaMask(atoms) == [n \in 1..Len(atoms.atom_name) |-> atoms.atom_name[n] = " CA "]

\* coord[mask]: boolean-mask indexing makes a new array of the selected rows
MaskIndex(h, ref, mask) ==
    Bind(SelectSeq([n \in 1..Len(h[ref]) |-> n], LAMBDA n : mask[n]),
         LAMBDA idx : Alloc(h, [k \in 1..Len(idx) |-> h[ref][idx[k]]]))

np_copy_alias(h, ref) == [heap |-> h, ref |-> ref]

\* np.copy(coord): a new array with the same content
np_copy(h, ref) == Alloc(h, h[ref])

\* the number of dimensions of s as np.linalg.svd returns it
SingularValuesNDim == 1

FlipLastColumn(v) == [i \in Dim |-> [j \in Dim |-> IF j = 3 THEN -v[i][j] ELSE v[i][j]]]

ReflectionGuard_absent(v, s, w) == [status |-> "ok", exc |-> "", v |-> v]

\* lines 126-128: s[-1,:] indexes s with two indices
ReflectionGuard(v, s, w) ==
    IF Det(v) * Det(w) < 0
    THEN IF SingularValuesNDim < 2
         THEN [status |-> "raise", exc |-> "IndexError", v |-> v]
         ELSE [status |-> "ok", exc |-> "", v |-> FlipLastColumn(v)]
    ELSE [status |-> "ok", exc |-> "", v |-> v]

\* lines 101-109: the point sets the fit works on
Centered(h, fixed, mobile, ca_only) ==
    Bind(IF ca_only THEN MaskIndex(h, mobile.coord, CaMask(mobile))
                    ELSE np_copy(h, mobile.coord),
         LAMBDA mc :
    Bind(IF ca_only THEN MaskIndex(mc.heap, fixed.coord, CaMask(fixed))
                    ELSE np_copy(mc.heap, fixed.coord),
         LAMBDA fc :
    [heap |-> fc.heap, mob_centered |-> mc.ref, fix_centered |-> fc.ref]))

SizesDiffer(c) == Len(c.heap[c.mob_centered]) # Len(c.heap[c.fix_centered])

\* lines 115-116: mob_centered -= mob_centroid; fix_centered -= fix_centroid
CenterInPlace(c, mob_centroid, fix_centroid) ==
    Bind([c.heap EXCEPT ![c.mob_centered] = ArrSub(@, mob_centroid)],
         LAMBDA h2 : [h2 EXCEPT ![c.fix_centered] = ArrSub(@, fix_centroid)])

\* lines 131-135
Fit(h, mobile, mob_centroid, fix_centroid, rotation) ==
    Bind(AtomArrayCopy(h, mobile), LAMBDA f :
    Bind([f.heap EXCEPT ![f.obj.coord] = ArrSub(@, mob_centroid)], LAMBDA h5 :
    \* fitted_subject.coord = np.dot(...): a new array
    Bind(Alloc(h5, ArrDot(h5[f.obj.coord], rotation)), LAMBDA r :
    Return([r.heap EXCEPT ![r.ref] = ArrAdd(@, fix_centroid)],
           [fitted |-> [f.obj EXCEPT !.coord = r.ref],
            transformation |-> <<VecNeg(mob_centroid), rotation, fix_centroid>>]))))

_superimpose(h, fixed, mobile, ca_only, pol) ==
    IF mobile.type # "AtomArray"
    THEN Return(h, None)        \* no branch taken: the function ends
    ELSE
    Bind(centroid(h[mobile.coord]), LAMBDA mob_centroid :
    Bind(centroid(h[fixed.coord]), LAMBDA fix_centroid :
    Bind(Centered(h, fixed, mobile, ca_only), LAMBDA c :
    IF SizesDiffer(c)
    THEN Raise(c.heap, RaiseNamed("BadStructureException"))
    ELSE
    Bind(CenterInPlace(c, mob_centroid, fix_centroid), LAMBDA h3 :
    \* y = mob_centered, x = fix_centered, cov = np.dot(y.T, x)
    Bind(Cov(h3[c.mob_centered], h3[c.fix_centered]), LAMBDA cov :
    Bind(svd(cov, pol), LAMBDA d :
    Bind(ReflectionGuard(d[1], d[2], d[3]), LAMBDA g :
    IF g.status = "raise"
    THEN Raise(h3, g.exc)
    ELSE Bind(MatMul(g.v, d[3]), LAMBDA rotation :
         Fit(h3, mobile, mob_centroid, fix_centroid, rotation)))))))))

AppendResult_reversed(list, x) == <<x>> \o list

\* list.append
AppendResult(list, x) == Append(list, x)

\* lines 78-85: one pass of the loop for every model of the stack, then stack()
RECURSIVE SuperimposeLoop(_, _, _, _, _, _, _, _)
SuperimposeLoop(h, fixed, mobile, ca_only, pol, i, fitted_subjects, transformations) ==
    IF i > Len(mobile.coord)
    THEN Bind(stack(h, fitted_subjects), LAMBDA s :
         Return(s.heap, [fitted |-> s.obj, transformation |-> transformations]))
    ELSE Bind(_superimpose(h, fixed, StackMember(mobile, i), ca_only, pol), LAMBDA r :
         IF r.status = "raise"
         THEN r
         ELSE Bind(AppendResult(fitted_subjects, r.value.fitted), LAMBDA fs :
              Bind(AppendResult(transformations, r.value.transformation), LAMBDA ts :
              SuperimposeLoop(r.heap, fixed, mobile, ca_only, pol, i + 1, fs, ts))))

MobileDispatch_noelse(mobile) ==
    IF mobile.type = "AtomArrayStack" THEN "stack" ELSE "single"

\* lines 71, 74, 86: the branch taken for mobile
MobileDispatch(mobile) ==
    IF mobile.type = "AtomArray" THEN "single"
    ELSE IF mobile.type = "AtomArrayStack" THEN "stack"
    ELSE "else"

superimpose(h, fixed, mobile, ca_only, pol) ==
    IF fixed.type # "AtomArray"
    THEN Raise(h, "ValueError")
    ELSE IF MobileDispatch(mobile) = "single"
    THEN _superimpose(h, fixed, mobile, ca_only, pol)
    ELSE IF MobileDispatch(mobile) = "stack"
    THEN SuperimposeLoop(h, fixed, mobile, ca_only, pol, 1, <<>>, <<>>)
    ELSE Raise(h, "ValueError")

\* lines 161-164: transformed is built and the function ends without a return
apply_superimposition(h, atoms, transformation) ==
    Bind(AtomArrayCopy(h, atoms), LAMBDA t :
    Bind([t.heap EXCEPT ![t.obj.coord] = ArrAdd(@, transformation[1])], LAMBDA h1 :
    Bind(Alloc(h1, ArrDot(h1[t.obj.coord], transformation[2])), LAMBDA r :
    Return([r.heap EXCEPT ![r.ref] = ArrAdd(@, transformation[3])], None))))

(***************************************************************************)
(* The structures the callers pass.  Every structure has an integer        *)
(* centroid and a covariance on the grid of the SVD model.                 *)
(***************************************************************************)
Tetra ==
    [coord |-> <<<<3, 2, 1>>, <<3, -2, -1>>, <<-3, 2, -1>>, <<-3, -2, 1>>>>,
     atom_name |-> <<" CA ", " CA ", " CA ", " CA ">>]

\* three alpha carbons: a planar structure
Planar ==
    [coord |-> <<<<2, 0, 0>>, <<-1, 1, 0>>, <<-1, -1, 0>>>>,
     atom_name |-> <<" CA ", " CA ", " CA ">>]

\* the alpha carbons of Tetra and one more atom: the centroid of the whole
\* structure is not the centroid of its alpha carbons
SideChain ==
    [coord |-> <<<<3, 2, 1>>, <<3, -2, -1>>, <<-3, 2, -1>>, <<-3, -2, 1>>, <<5, 0, 0>>>>,
     atom_name |-> <<" CA ", " CA ", " CA ", " CA ", " N  ">>]

\* the atoms of Planar with their names as "CA", without the padding
Unpadded ==
    [coord |-> Planar.coord, atom_name |-> <<"CA", "CA", "CA">>]

Bases == {Tetra, Planar, SideChain, Unpadded}

RotZ90 == <<<<0, -1, 0>>, <<1, 0, 0>>, <<0, 0, 1>>>>
MirrorZ == <<<<1, 0, 0>>, <<0, 1, 0>>, <<0, 0, -1>>>>

Same == [q |-> Identity, t |-> <<0, 0, 0>>]
Turned == [q |-> RotZ90, t |-> <<5, 5, 0>>]
Mirrored == [q |-> MirrorZ, t |-> <<0, 0, 0>>]

Motions == {Same, Turned, Mirrored}

Move(coord, mo) == ArrAdd(ArrDot(coord, mo.q), mo.t)

SeqsUpTo(S, n) == UNION {[1..k -> S] : k \in 1..n}

FixedInputs ==
    {[type |-> "AtomArray", arrays |-> <<b.coord>>, atom_name |-> b.atom_name] :
        b \in Bases}
    \cup {[type |-> "AtomArrayStack", arrays |-> <<Tetra.coord, Tetra.coord>>,
           atom_name |-> Tetra.atom_name]}

MobileInputs ==
    {[type |-> "AtomArray", arrays |-> <<Move(b.coord, mo)>>, atom_name |-> b.atom_name] :
        b \in Bases, mo \in Motions}
    \cup {[type |-> "AtomArrayStack",
           arrays |-> [i \in 1..Len(ms) |-> Move(b.coord, ms[i])],
           atom_name |-> b.atom_name] :
        b \in Bases, ms \in SeqsUpTo(Motions, MaxStack)}
    \cup {[type |-> "Atom", arrays |-> <<<<Tetra.coord[1]>>>>,
           atom_name |-> <<" CA ">>]}

\* the caller's object on the heap
LoadObj(h, in) ==
    [heap |-> h \o in.arrays,
     obj |-> [type |-> in.type,
              coord |-> IF in.type = "AtomArrayStack"
                        THEN [k \in 1..Len(in.arrays) |-> Len(h) + k]
                        ELSE Len(h) + 1,
              atom_name |-> in.atom_name]]

\* the AtomArrays of an argument: itself, or the models of the stack
Members(obj) ==
    IF obj.type = "AtomArrayStack"
    THEN [i \in 1..Len(obj.coord) |-> StackMember(obj, i)]
    ELSE <<obj>>

\* the fit of this pair stays on the grid of the model
OnGrid(h, fixed, mobile, ca_only) ==
    /\ ExactCentroid(h[fixed.coord])
    /\ ExactCentroid(h[mobile.coord])
    /\ Bind(Centered(h, fixed, mobile, ca_only), LAMBDA c :
         IF SizesDiffer(c) THEN TRUE
         ELSE Bind(CenterInPlace(c, centroid(h[mobile.coord]), centroid(h[fixed.coord])),
                   LAMBDA h3 :
              Bind(Cov(h3[c.mob_centered], h3[c.fix_centered]), LAMBDA cov :
              Representable(cov))))

(***************************************************************************)
(* download.py                                                             *)
(***************************************************************************)
IDs == {"1l2y", "3o5r"}

\* the documented formats and one that is not supported
Formats == {"pdb", "pdbx", "cif", "mmcif", "mmtf", "fasta", "xyz"}

TargetDir == "downloads"

Absent == [kind |-> "absent"]

\* a file somebody else stored earlier, and what the server serves now
StaleContent(id, format) == [kind |-> "content", id |-> id, doc |-> format, rev |-> "stale"]
FreshContent(id, doc) == [kind |-> "content", id |-> id, doc |-> doc, rev |-> "fresh"]

\* os.path.join(target_path, id + "." + format)
PathJoin(target_path, id, format) ==
    [kind |-> "path", dir |-> target_path, id |-> id, ext |-> format]

\* os.path.isfile(file)
IsFile(d, file) == d[<<file.id, file.ext>>] # Absent

\* what the server answers: the file, or one of its two error pages
ResponseKinds == {"file", "404 Not Found", "RCSB Protein Data Bank Error Page"}

Response(kind, id, doc) ==
    [has404 |-> kind = "404 Not Found",
     hasErrorTitle |-> kind = "RCSB Protein Data Bank Error Page",
     content |-> FreshContent(id, doc)]

\* lines 155-164
_assert_valid_file(response, pdb_id) ==
    IF response.has404 \/ response.hasErrorTitle THEN "RequestError" ELSE "ok"

NeedsDownload_neverOverwrites(file, d, overwrite) == file = None \/ ~IsFile(d, file)

\* line 100: file is None or not os.path.isfile(file) or overwrite
NeedsDownload(file, d, overwrite) == file = None \/ ~IsFile(d, file) \/ overwrite

\* lines 101-144: the URL and document asked for, by format
RequestFor(format, id) ==
    IF format = "pdb" THEN [url |-> "_standard_url", name |-> <<id, ".pdb">>, doc |-> "pdb"]
    ELSE IF format \in {"cif", "mmcif", "pdbx"}
    THEN [url |-> "_standard_url", name |-> <<id, ".cif">>, doc |-> "cif"]
    ELSE IF format = "mmtf" THEN [url |-> "_mmtf_url", name |-> <<id>>, doc |-> "mmtf"]
    ELSE IF format = "fasta" THEN [url |-> "_fasta_url", name |-> <<id>>, doc |-> "fasta"]
    ELSE None

\* io.StringIO(content), io.BytesIO(content)
InMemory(format, content) ==
    [kind |-> IF format = "mmtf" THEN "BytesIO" ELSE "StringIO", content |-> content]

\* lines 96-145: one pass of the loop; st holds the disk, the requests made
\* and the list files
FetchOne(st, i, id, format, target_path, overwrite, resp) ==
    Bind(IF target_path # None THEN PathJoin(target_path.dir, id, format) ELSE None,
         LAMBDA file :
    IF NeedsDownload(file, st.disk, overwrite)
    THEN Bind(RequestFor(format, id), LAMBDA rq :
         IF rq = None
         THEN [st EXCEPT !.status = "raise", !.exc = "ValueError", !.failedAt = i]
         ELSE Bind(Response(resp[id], id, rq.doc), LAMBDA r :
              Bind([st EXCEPT !.requests =
                        Append(@, [pos |-> i, id |-> id, url |-> rq.url, name |-> rq.name])],
                   LAMBDA st1 :
              IF _assert_valid_file(r, id) # "ok"
              THEN [st1 EXCEPT !.status = "raise", !.exc = _assert_valid_file(r, id),
                               !.failedAt = i]
              ELSE IF file = None
              THEN [st1 EXCEPT !.files = Append(@, InMemory(format, r.content))]
              ELSE [st1 EXCEPT !.disk[<<id, format>>] = r.content,
                               !.files = Append(@, file)])))
    ELSE [st EXCEPT !.files = Append(@, file)])

RECURSIVE FetchLoop(_, _, _, _, _, _, _)
FetchLoop(st, i, ids, format, target_path, overwrite, resp) ==
    IF i > Len(ids) \/ st.status = "raise"
    THEN st
    ELSE Bind(FetchOne(st, i, ids[i], format, target_path, overwrite, resp), LAMBDA st1 :
         FetchLoop(st1, i + 1, ids, format, target_path, overwrite, resp))

ReturnValue_alwaysList(single_element, files) == [kind |-> "list", files |-> files]

\* lines 149-152: files[0] for a single ID, else the list files
ReturnValue(single_element, files) ==
    IF single_element THEN [kind |-> "one", file |-> files[1]]
    ELSE [kind |-> "list", files |-> files]

\* lines 81-152; pdb_ids is a str or a list of str
fetch(d, pdb_ids, format, target_path, overwrite, resp) ==
    Bind(IF pdb_ids.kind = "str" THEN <<pdb_ids.id>> ELSE pdb_ids.ids, LAMBDA ids :
    Bind(FetchLoop([disk |-> d, requests |-> <<>>, files |-> <<>>, status |-> "return",
                    exc |-> "", failedAt |-> 0],
                   1, ids, format, target_path, overwrite, resp), LAMBDA st :
    [disk |-> st.disk, requests |-> st.requests, status |-> st.status, exc |-> st.exc,
     failedAt |-> st.failedAt,
     value |-> IF st.status = "raise" THEN None
               ELSE ReturnValue(pdb_ids.kind = "str", st.files)]))

PdbIdArgs ==
    {[kind |-> "str", id |-> id] : id \in IDs}
    \cup {[kind |-> "list", ids |-> ids] : ids \in SeqsUpTo(IDs, MaxIds) \cup {<<>>}}

TargetArgs == {None, [kind |-> "dir", dir |-> TargetDir]}

NoFiles == [p \in IDs \X Formats |-> Absent]

FileCount(d) == Cardinality({p \in DOMAIN d : d[p] # Absent})

(***************************************************************************)
(* online.py                                                               *)
(***************************************************************************)
\* lines 26-27
_contact_delay == 3
_request_delay == 60

\* lines 6-15: the names bound in the module
OnlineNames ==
    {"BlastAlignment", "Application", "evaluation", "WebApp", "RuleViolationError",
     "Sequence", "DNASequence", "ProteinSequence", "FastaFile", "time", "requests",
     "ElementTree", "abstractmethod", "BlastOnline"}

RaiseOnline(name) == IF name \in OnlineNames THEN name ELSE "NameError"

\* lines 24-25
ClassAttributes == [_last_contact |-> 0, _last_request |-> 0]

\* lines 29-69
NewBlastOnline(obey_rules) ==
    [obey_rules |-> obey_rules, state |-> "CREATED", _rid |-> "", _is_finished |-> FALSE]

\* Application.is_started(): run() has been called
is_started(app) == app.state # "CREATED"

\* WebApp.violate_rule(): raises when the rules are obeyed
violate_rule(app) == IF app.obey_rules THEN "RuleViolationError" ELSE "ok"

time_sleep_returnsEarly(t, secs, over) == t + secs - 1 + over

\* time.sleep(secs): suspends for at least secs seconds
time_sleep(t, secs, over) == t + secs + over

\* what the server writes into the QBlastInfo block as Status; "" is a
\* response without a Status line
Statuses == {"WAITING", "READY", "UNKNOWN", ""}

\* lines 225-229
_contact(app, c, contact) ==
    Bind(contact - c._last_contact < _contact_delay, LAMBDA tooOften :
    IF tooOften /\ violate_rule(app) # "ok"
    THEN [status |-> "raise", exc |-> violate_rule(app), reported |-> TRUE, cls |-> c]
    ELSE [status |-> "ok", exc |-> "", reported |-> tooOften,
          cls |-> [c EXCEPT !._last_contact = contact]])

\* lines 231-235
_request(app, c, request) ==
    Bind(request - c._last_request < _request_delay, LAMBDA tooOften :
    IF tooOften /\ violate_rule(app) # "ok"
    THEN [status |-> "raise", exc |-> violate_rule(app), reported |-> TRUE, cls |-> c]
    ELSE [status |-> "ok", exc |-> "", reported |-> tooOften,
          cls |-> [c EXCEPT !._last_request = request]])

\* the outcome of an operation of the instance
Outcome(app, c, t, sent, status, exc, result, reported, gap, ready) ==
    [self |-> app, cls |-> c, now |-> t, sent |-> sent, status |-> status, exc |-> exc,
     result |-> result, reported |-> reported, gap |-> gap, ready |-> ready]

\* lines 93-128; rid is the RID of the answer, "" when it carries none
run(app, c, t, latency, rid) ==
    \* super().run()
    Bind([app EXCEPT !.state = "RUNNING"], LAMBDA a1 :
    \* requests.get(...)
    Bind(t + latency, LAMBDA t1 :
    Bind(_contact(a1, c, t1), LAMBDA ct :
    IF ct.status = "raise"
    THEN Outcome(a1, ct.cls, t1, 1, "raise", ct.exc, "None", TRUE, t1 - c._last_contact, FALSE)
    ELSE Bind(_request(a1, ct.cls, t1), LAMBDA rq :
         IF rq.status = "raise"
         THEN Outcome(a1, rq.cls, t1, 1, "raise", rq.exc, "None", TRUE,
                      t1 - c._last_contact, FALSE)
         ELSE IF rid = ""
         THEN Outcome(a1, rq.cls, t1, 1, "raise", "KeyError", "None",
                      ct.reported \/ rq.reported, t1 - c._last_contact, FALSE)
         ELSE Outcome([a1 EXCEPT !._rid = rid], rq.cls, t1, 1, "return", "", "None",
                      ct.reported \/ rq.reported, t1 - c._last_contact, FALSE)))))

IsKnownFinished_forgets(app) == FALSE

\* line 145
IsKnownFinished(app) == app._is_finished

\* lines 141-159; answer is the Status the server reports
is_finished(app, c, t, latency, answer) ==
    IF ~is_started(app)
    THEN Outcome(app, c, t, 0, "raise", RaiseOnline("ApplicationError"), "None",
                 FALSE, 0, FALSE)
    ELSE IF IsKnownFinished(app)
    THEN Outcome(app, c, t, 0, "return", "", "True", FALSE, 0, FALSE)
    ELSE
    Bind(t + latency, LAMBDA t1 :
    Bind(_contact(app, c, t1), LAMBDA ct :
    IF ct.status = "raise"
    THEN Outcome(app, ct.cls, t1, 1, "raise", ct.exc, "None", TRUE,
                 t1 - c._last_contact, FALSE)
    ELSE IF answer = ""
    THEN Outcome(app, ct.cls, t1, 1, "raise", "KeyError", "None", ct.reported,
                 t1 - c._last_contact, FALSE)
    ELSE Bind(IF answer = "READY" THEN [app EXCEPT !._is_finished = TRUE] ELSE app,
              LAMBDA a1 :
         Outcome(a1, ct.cls, t1, 1, "return", "",
                 IF a1._is_finished THEN "True" ELSE "False", ct.reported,
                 t1 - c._last_contact, answer = "READY"))))

NoCall == [op |-> "none"]
NoResult == [status |-> "none"]

coreVars == <<lapack, call, pre, heap, ret, applied>>
fetchVars == <<dirExists, disk, fcall, fret>>
blastVars == <<now, cls, self, pc, contacts, readySeen, bop>>
vars == <<coreVars, fetchVars, blastVars>>

Init ==
    /\ lapack \in 1..MaxPolicy
    /\ call = NoCall
    /\ pre = <<>>
    /\ heap = <<>>
    /\ ret = NoResult
    /\ applied = NoResult
    /\ dirExists = FALSE
    /\ disk = NoFiles
    /\ fcall = NoCall
    /\ fret = NoResult
    \* time.time() is past both delays when the module is loaded
    /\ now = _request_delay
    /\ cls = ClassAttributes
    /\ self = None
    /\ pc = "idle"
    /\ contacts = 0
    /\ readySeen = FALSE
    /\ bop = NoCall

\* a caller builds a fixed and a mobile structure and calls superimpose()
Superimpose ==
    /\ call = NoCall
    /\ \E fin \in FixedInputs, min \in MobileInputs, ca_only \in BOOLEAN :
         \E f \in {LoadObj(<<>>, fin)} :
         \E m \in {LoadObj(f.heap, min)} :
             /\ (f.obj.type = "AtomArray" /\ m.obj.type # "Atom")
                    => \A i \in 1..Len(Members(m.obj)) :
                          OnGrid(m.heap, f.obj, Members(m.obj)[i], ca_only)
             /\ \E r \in {superimpose(m.heap, f.obj, m.obj, ca_only, lapack)} :
                  /\ call' = [op |-> "superimpose", fixed |-> f.obj, mobile |-> m.obj,
                              ca_only |-> ca_only]
                  /\ pre' = m.heap
                  /\ heap' = r.heap
                  /\ ret' = [status |-> r.status, exc |-> r.exc, value |-> r.value]
                  /\ applied' = NoResult
    /\ UNCHANGED <<lapack, fetchVars, blastVars>>

\* the caller replays a returned transformation on one of its structures
ApplySuperimposition ==
    /\ call # NoCall
    /\ ret.status = "return"
    /\ ret.value # None
    /\ applied = NoResult
    /\ \E i \in 1..Len(Members(call.mobile)), onFixed \in BOOLEAN :
         \E atoms \in {IF onFixed THEN call.fixed ELSE Members(call.mobile)[i]} :
         \E transformation \in {IF call.mobile.type = "AtomArrayStack"
                                 THEN ret.value.transformation[i]
                                 ELSE ret.value.transformation} :
         \E r \in {apply_superimposition(heap, atoms, transformation)} :
             /\ heap' = r.heap
             /\ applied' = [status |-> r.status, exc |-> r.exc, value |-> r.value,
                            atoms |-> atoms, member |-> i,
                            transformation |-> transformation]
    /\ UNCHANGED <<lapack, call, pre, ret, fetchVars, blastVars>>

\* the caller is done with the structures and the results
Discard ==
    /\ call # NoCall
    /\ call' = NoCall
    /\ pre' = <<>>
    /\ heap' = <<>>
    /\ ret' = NoResult
    /\ applied' = NoResult
    /\ UNCHANGED <<lapack, fetchVars, blastVars>>

Next == Superimpose \/ ApplySuperimposition \/ Discard

Spec == Init /\ [][Next]_vars

(***************************************************************************)
(* The downloader: somebody makes the target directory and stores files in *)
(* it, a caller calls fetch(), and the directory is removed again.         *)
(***************************************************************************)
MakeDir ==
    /\ fcall = NoCall
    /\ ~dirExists
    /\ dirExists' = TRUE
    /\ UNCHANGED <<coreVars, blastVars, disk, fcall, fret>>

StoreFile ==
    /\ fcall = NoCall
    /\ dirExists
    /\ FileCount(disk) < MaxFiles
    /\ \E id \in IDs, format \in Formats :
         /\ disk[<<id, format>>] = Absent
         /\ disk' = [disk EXCEPT ![<<id, format>>] = StaleContent(id, format)]
    /\ UNCHANGED <<coreVars, blastVars, dirExists, fcall, fret>>

Fetch ==
    /\ fcall = NoCall
    /\ \E pdb_ids \in PdbIdArgs, format \in Formats, target_path \in TargetArgs,
          overwrite \in BOOLEAN, resp \in [IDs -> ResponseKinds] :
         \* a single str with an empty result list cannot happen: one pass is made
         \E r \in {fetch(disk, pdb_ids, format, target_path, overwrite, resp)} :
             /\ fcall' = [op |-> "fetch", pdb_ids |-> pdb_ids, format |-> format,
                          target_path |-> target_path, overwrite |-> overwrite,
                          resp |-> resp, disk |-> disk, dirExists |-> dirExists]
             \* lines 87-88: os.makedirs(target_path)
             /\ dirExists' = (dirExists \/ target_path # None)
             /\ disk' = r.disk
             /\ fret' = [status |-> r.status, exc |-> r.exc, value |-> r.value,
                         requests |-> r.requests, failedAt |-> r.failedAt]
    /\ UNCHANGED <<coreVars, blastVars>>

Cleanup ==
    /\ fcall # NoCall
    /\ fcall' = NoCall
    /\ fret' = NoResult
    /\ dirExists' = FALSE
    /\ disk' = NoFiles
    /\ UNCHANGED <<coreVars, blastVars>>

NextFetch == MakeDir \/ StoreFile \/ Fetch \/ Cleanup

InitFetch == Init /\ lapack = 1

FetchSpec == InitFetch /\ [][NextFetch]_vars

(***************************************************************************)
(* The BLAST client: one caller, one BlastOnline instance.  Time passes    *)
(* between the caller's operations, while a request is under way and       *)
(* while the caller sleeps.                                                *)
(***************************************************************************)
Deadline == _request_delay + MaxElapsed

\* what an operation leaves behind for the properties to read
Done(op, inJoin, before, o) ==
    [op |-> op, inJoin |-> inJoin, started |-> is_started(before),
     flagBefore |-> before._is_finished, sent |-> o.sent, status |-> o.status,
     exc |-> o.exc, result |-> o.result, reported |-> o.reported, gap |-> o.gap]

Construct ==
    /\ self = None
    /\ \E obey_rules \in BOOLEAN : self' = NewBlastOnline(obey_rules)
    /\ bop' = [op |-> "__init__"]
    /\ UNCHANGED <<coreVars, fetchVars, now, cls, pc, contacts, readySeen>>

Tick ==
    /\ pc = "idle"
    /\ now < Deadline
    /\ now' = now + 1
    /\ UNCHANGED <<coreVars, fetchVars, cls, self, pc, contacts, readySeen, bop>>

Run ==
    /\ self # None
    /\ pc = "idle"
    /\ self.state = "CREATED"
    /\ \E latency \in 0..MaxLatency, rid \in {"RID", ""} :
         \E o \in {run(self, cls, now, latency, rid)} :
             /\ o.now <= Deadline
             /\ self' = o.self
             /\ cls' = o.cls
             /\ now' = o.now
             /\ contacts' = contacts + o.sent
             /\ bop' = Done("run", FALSE, self, o)
    /\ UNCHANGED <<coreVars, fetchVars, pc, readySeen>>

\* the caller asks is_finished() itself
IsFinished ==
    /\ self # None
    /\ pc = "idle"
    /\ contacts < MaxContacts
    /\ \E latency \in 0..MaxLatency, answer \in Statuses :
         \E o \in {is_finished(self, cls, now, latency, answer)} :
             /\ o.now <= Deadline
             /\ self' = o.self
             /\ cls' = o.cls
             /\ now' = o.now
             /\ contacts' = contacts + o.sent
             /\ readySeen' = (readySeen \/ o.ready)
             /\ bop' = Done("is_finished", FALSE, self, o)
    /\ UNCHANGED <<coreVars, fetchVars, pc>>

\* lines 131-134: join() up to the end of its first sleep
JoinEnter ==
    /\ self # None
    /\ pc = "idle"
    /\ IF ~is_started(self)
       THEN /\ bop' = Done("join", TRUE, self,
                           Outcome(self, cls, now, 0, "raise",
                                   RaiseOnline("ApplicationError"), "None", FALSE, 0, FALSE))
            /\ UNCHANGED <<now, pc>>
       ELSE \E over \in 0..MaxOversleep :
                /\ now' = time_sleep(now, _contact_delay, over)
                /\ now' <= Deadline
                /\ pc' = "join_poll"
                /\ bop' = [op |-> "join_sleep"]
    /\ UNCHANGED <<coreVars, fetchVars, cls, self, contacts, readySeen>>

\* lines 135-137: one test of the loop condition and, when the run has not
\* finished, the sleep of the loop body
JoinPoll ==
    /\ pc = "join_poll"
    /\ \E latency \in 0..MaxLatency, answer \in Statuses, over \in 0..MaxOversleep :
         \E o \in {is_finished(self, cls, now, latency, answer)} :
             /\ self' = o.self
             /\ cls' = o.cls
             /\ contacts' = contacts + o.sent
             /\ readySeen' = (readySeen \/ o.ready)
             /\ bop' = Done("is_finished", TRUE, self, o)
             /\ IF o.status = "raise" THEN now' = o.now /\ pc' = "idle"
                ELSE IF o.result = "True" THEN now' = o.now /\ pc' = "join_exit"
                ELSE now' = time_sleep(o.now, _contact_delay, over) /\ pc' = "join_poll"
             /\ now' <= Deadline
    /\ UNCHANGED <<coreVars, fetchVars>>

\* lines 138-139: the last sleep and super().join()
JoinExit ==
    /\ pc = "join_exit"
    /\ \E over \in 0..MaxOversleep :
         /\ now' = time_sleep(now, _contact_delay, over)
         /\ now' <= Deadline
    /\ self' = [self EXCEPT !.state = "JOINED"]
    /\ pc' = "idle"
    /\ bop' = [op |-> "join", inJoin |-> TRUE, status |-> "return"]
    /\ UNCHANGED <<coreVars, fetchVars, cls, contacts, readySeen>>

NextBlast == Construct \/ Tick \/ Run \/ IsFinished \/ JoinEnter \/ JoinPoll \/ JoinExit

InitBlast == Init /\ lapack = 1

BlastSpec == InitBlast /\ [][NextBlast]_vars

(***************************************************************************)
(* What the properties below read off a state.                             *)
(***************************************************************************)
Called == call # NoCall
Returned == Called /\ ret.status = "return" /\ ret.value # None
Raised == Called /\ ret.status = "raise"

\* superimpose() was called with a single fixed and a single mobile AtomArray
SingleCall == Called /\ call.fixed.type = "AtomArray" /\ call.mobile.type = "AtomArray"
\* superimpose() was called with a single fixed AtomArray and a mobile stack
StackCall == Called /\ call.fixed.type = "AtomArray" /\ call.mobile.type = "AtomArrayStack"

\* the returned transformations and the arrays of the returned structures
Transforms ==
    IF call.mobile.type = "AtomArrayStack"
    THEN ret.value.transformation ELSE <<ret.value.transformation>>
FittedRefs ==
    IF call.mobile.type = "AtomArrayStack"
    THEN ret.value.fitted.coord ELSE <<ret.value.fitted.coord>>

\* the rows of an array whose atom is named " CA "
Landmarks(arr, atoms) ==
    Bind(SelectSeq([n \in 1..Len(arr) |-> n], LAMBDA n : CaMask(atoms)[n]),
         LAMBDA idx : [k \in 1..Len(idx) |-> arr[idx[k]]])

\* the point set of the fit, before centring
Reduced(arr, atoms) == IF call.ca_only THEN Landmarks(arr, atoms) ELSE arr

SizesMatch ==
    Len(Reduced(pre[call.fixed.coord], call.fixed))
        = Len(Reduced(pre[call.mobile.coord], call.mobile))

\* the decomposition the single call got from np.linalg.svd
CallSvd ==
    Bind(Centered(pre, call.fixed, call.mobile, call.ca_only), LAMBDA c :
    Bind(CenterInPlace(c, centroid(pre[call.mobile.coord]),
                       centroid(pre[call.fixed.coord])), LAMBDA h3 :
    Bind(Cov(h3[c.mob_centered], h3[c.fix_centered]), LAMBDA cov :
    svd(cov, lapack))))

GuardEngaged == SingleCall /\ SizesMatch /\ Det(CallSvd[1]) * Det(CallSvd[3]) < 0

IsProperRotation(r) == MatMul(r, Transpose(r)) = Identity /\ Det(r) = 1

(***************************************************************************)
(* C1: apply_superimposition(mobile, transformation), with the             *)
(* transformation superimpose(fixed, mobile) returned, returns a structure *)
(* whose coordinates equal those of the fitted structure of that call.     *)
(***************************************************************************)
C1_ReplayEquivalence ==
    (/\ SingleCall /\ Returned
     /\ applied.status = "return"
     /\ applied.atoms = call.mobile
     /\ applied.transformation = ret.value.transformation)
    => /\ applied.value # None
       /\ heap[applied.value.coord] = heap[ret.value.fitted.coord]

(***************************************************************************)
(* C2: every transformation superimpose() returns, for a single mobile and *)
(* for every model of a stack, has a proper rotation: orthogonal with      *)
(* determinant +1.                                                         *)
(***************************************************************************)
C2_ProperRotation ==
    Returned => \A i \in 1..Len(Transforms) : IsProperRotation(Transforms[i][2])

C2_Witness ==
    /\ StackCall /\ Returned
    /\ Len(Transforms) > 1
    /\ Transforms[1][2] = Identity
    /\ Transforms[2][2] # Identity

(***************************************************************************)
(* C3: when det(v) * det(w) < 0 for the factors of the SVD, the call       *)
(* returns the fitted structure and a transformation whose rotation is the *)
(* product of v with its last column negated and w; it raises nothing.     *)
(***************************************************************************)
C3_GuardCompletes ==
    GuardEngaged
    => /\ Returned
       /\ ret.value.transformation[2] = MatMul(FlipLastColumn(CallSvd[1]), CallSvd[3])

(***************************************************************************)
(* C4: when the point sets of the fit differ in size, superimpose() raises *)
(* BadStructureException and returns nothing.                              *)
(***************************************************************************)
C4_SizeMismatchError ==
    (SingleCall /\ ~SizesMatch)
    => /\ Raised
       /\ ret.exc = "BadStructureException"
       /\ ret.value = None

(***************************************************************************)
(* C5: superimpose() raises ValueError and returns nothing when fixed is   *)
(* not an AtomArray, and when mobile is neither an AtomArray nor an        *)
(* AtomArrayStack; no array has been made by then, so no model of mobile   *)
(* has been processed.                                                     *)
(***************************************************************************)
C5_InputKind ==
    (Called /\ (\/ call.fixed.type # "AtomArray"
                \/ call.mobile.type \notin {"AtomArray", "AtomArrayStack"}))
    => /\ Raised
       /\ ret.exc = "ValueError"
       /\ ret.value = None
       /\ heap = pre

C5_Witness ==
    /\ Called
    /\ call.fixed.type = "AtomArrayStack"
    /\ call.mobile.type = "AtomArrayStack"
    /\ Raised /\ ret.exc = "ValueError"

(***************************************************************************)
(* C6: for a stack of k models superimpose() returns k fitted structures   *)
(* and k transformations, the i-th of each equal to what                   *)
(* _superimpose(fixed, model i) returns on its own; and it raises exactly  *)
(* when a model raises on its own, with the error of the first such model. *)
(***************************************************************************)
Alone(i) == _superimpose(pre, call.fixed, StackMember(call.mobile, i), call.ca_only, lapack)

C6_Batching ==
    StackCall =>
      Bind([i \in 1..Len(call.mobile.coord) |-> Alone(i)], LAMBDA alone :
        IF \A i \in DOMAIN alone : alone[i].status = "return"
        THEN /\ Returned
             /\ ret.value.fitted.type = "AtomArrayStack"
             /\ Len(ret.value.fitted.coord) = Len(alone)
             /\ Len(ret.value.transformation) = Len(alone)
             /\ \A i \in DOMAIN alone :
                  /\ heap[ret.value.fitted.coord[i]]
                        = alone[i].heap[alone[i].value.fitted.coord]
                  /\ ret.value.fitted.atom_name = alone[i].value.fitted.atom_name
                  /\ ret.value.transformation[i] = alone[i].value.transformation
        ELSE /\ Raised
             /\ \E i \in DOMAIN alone :
                  /\ alone[i].status = "raise"
                  /\ \A j \in 1..(i - 1) : alone[j].status = "return"
                  /\ ret.exc = alone[i].exc)

C6_Witness ==
    /\ StackCall /\ Returned
    /\ Len(ret.value.transformation) > 1
    /\ ret.value.transformation[1] # ret.value.transformation[2]
    /\ heap[ret.value.fitted.coord[1]] # pre[call.mobile.coord[1]]

(***************************************************************************)
(* C7: after superimpose() and apply_superimposition(), returned or        *)
(* raised, every array the caller passed holds what it held at the call,   *)
(* and the arrays of the returned structures are new ones.                 *)
(***************************************************************************)
C7_NonMutation ==
    Called =>
      /\ Len(heap) >= Len(pre)
      /\ \A id \in 1..Len(pre) : heap[id] = pre[id]
      /\ Returned => \A i \in 1..Len(FittedRefs) : FittedRefs[i] > Len(pre)

C7_Witness ==
    /\ SingleCall /\ Returned
    /\ ~call.ca_only
    /\ applied.status = "return"
    /\ centroid(pre[call.mobile.coord]) # <<0, 0, 0>>
    /\ heap[ret.value.fitted.coord] # pre[call.mobile.coord]

\* both structures have atoms named " CA "
HasLandmarks ==
    /\ Len(Landmarks(pre[call.fixed.coord], call.fixed)) > 0
    /\ Len(Landmarks(pre[call.mobile.coord], call.mobile)) > 0

(***************************************************************************)
(* C8: with ca_only, the first translation returned is the negated         *)
(* centroid of the " CA " atoms of mobile and the last one the centroid of *)
(* the " CA " atoms of fixed.                                              *)
(***************************************************************************)
C8_LandmarkCentroids ==
    (SingleCall /\ Returned /\ call.ca_only /\ HasLandmarks)
    => /\ ret.value.transformation[1]
            = VecNeg(centroid(Landmarks(pre[call.mobile.coord], call.mobile)))
       /\ ret.value.transformation[3]
            = centroid(Landmarks(pre[call.fixed.coord], call.fixed))

(***************************************************************************)
(* C9: superimposing a structure on an identical copy of itself returns    *)
(* the identity as rotation and fitted coordinates equal to the original.  *)
(***************************************************************************)
IdenticalCopy ==
    /\ SingleCall
    /\ pre[call.fixed.coord] = pre[call.mobile.coord]
    /\ call.fixed.atom_name = call.mobile.atom_name

C9_SelfAlignment ==
    IdenticalCopy
    => /\ Returned
       /\ ret.value.transformation[2] = Identity
       /\ heap[ret.value.fitted.coord] = pre[call.mobile.coord]

(***************************************************************************)
(* fetch(): what a finished call shows about each requested ID             *)
(***************************************************************************)
Fetched == fcall # NoCall

FetchIds == IF fcall.pdb_ids.kind = "str" THEN <<fcall.pdb_ids.id>> ELSE fcall.pdb_ids.ids

Positions == 1..Len(FetchIds)

FileKey(i) == <<FetchIds[i], fcall.format>>

\* the file of the i-th ID exists when the loop comes to it: it was there
\* before the call, or an earlier pass for the same ID has stored it
ExistsAt(i) ==
    \/ fcall.disk[FileKey(i)] # Absent
    \/ \E j \in 1..(i - 1) : FetchIds[j] = FetchIds[i]

SkipCase(i) == fcall.target_path # None /\ ExistsAt(i) /\ ~fcall.overwrite

RequestsAt(i) == {k \in 1..Len(fret.requests) : fret.requests[k].pos = i}

FileUnchanged(i) ==
    /\ disk[FileKey(i)] # Absent
    /\ fcall.disk[FileKey(i)] # Absent => disk[FileKey(i)] = fcall.disk[FileKey(i)]

ValidResponse(i) == fcall.resp[FetchIds[i]] = "file"

SupportedFormat == RequestFor(fcall.format, "") # None

NewContent(i) == FreshContent(FetchIds[i], RequestFor(fcall.format, FetchIds[i]).doc)

\* the entry of the returned value that belongs to the i-th ID
ValueAt(i) ==
    IF fret.status # "return" THEN None
    ELSE IF fret.value.kind = "one" THEN fret.value.file
    ELSE fret.value.files[i]

ReturnsPath(i) == ValueAt(i) = PathJoin(TargetDir, FetchIds[i], fcall.format)

\* no earlier ID of the call raised
Reached(i) == fret.failedAt = 0 \/ i <= fret.failedAt

DeliversNew(i) ==
    IF fcall.target_path # None
    THEN disk[FileKey(i)] = NewContent(i) /\ ReturnsPath(i)
    ELSE ValueAt(i) = InMemory(fcall.format, NewContent(i))

(* C10 as stated: for each requested ID, when target_path is given, the    *)
(* file exists and overwrite is false, fetch issues no request for the ID, *)
(* leaves the file unchanged and returns its path; in every other case it  *)
(* issues a download for the ID and, on a valid response, writes/returns   *)
(* the new content.                                                        *)
C10_EveryRequestedId ==
    Fetched =>
        \A i \in Positions :
            IF SkipCase(i)
            THEN RequestsAt(i) = {} /\ FileUnchanged(i) /\ ReturnsPath(i)
            ELSE /\ Cardinality(RequestsAt(i)) = 1
                 /\ ValidResponse(i) => DeliversNew(i)

(* C10: for each requested ID the loop reaches (no earlier ID of the call  *)
(* raised): when target_path is given, the file exists and overwrite is    *)
(* false, fetch issues no request for the ID and leaves the file           *)
(* unchanged; in every other case with a supported format it issues one    *)
(* download for the ID and, on a valid response, stores the new content    *)
(* in the file when target_path is given, while an unsupported format      *)
(* raises ValueError without a request; and when the call returns, the     *)
(* entry for the ID is the path, or the new content in memory when no      *)
(* target_path is given.                                                   *)
C10_SkipOrDownload ==
    Fetched =>
        \A i \in Positions :
            Reached(i) =>
                IF SkipCase(i)
                THEN /\ RequestsAt(i) = {}
                     /\ FileUnchanged(i)
                     /\ fret.status = "return" => ReturnsPath(i)
                ELSE IF SupportedFormat
                THEN /\ Cardinality(RequestsAt(i)) = 1
                     /\ (ValidResponse(i) /\ fcall.target_path # None)
                            => disk[FileKey(i)] = NewContent(i)
                     /\ fret.status = "return" => DeliversNew(i)
                ELSE /\ RequestsAt(i) = {}
                     /\ fret.status = "raise" /\ fret.exc = "ValueError"
                     /\ fret.failedAt = i

\* one call that skips a stored file and downloads over another one
C10_Witness ==
    /\ Fetched
    /\ fret.status = "return"
    /\ fcall.target_path # None
    /\ \E i, j \in Positions :
         /\ FetchIds[i] # FetchIds[j]
         /\ fcall.disk[FileKey(i)] # Absent /\ ~fcall.overwrite
         /\ RequestsAt(i) = {} /\ disk[FileKey(i)] = fcall.disk[FileKey(i)]
         /\ fcall.disk[FileKey(j)] = Absent
         /\ RequestsAt(j) # {} /\ disk[FileKey(j)] = NewContent(j)

\* the ID a result belongs to: of a path, or of the content held in memory
OwnerOf(result) == IF result.kind = "path" THEN result.id ELSE result.content.id

FetchReturned == Fetched /\ fret.status = "return"

(* C11: when pdb_ids is a single string, fetch returns a single result,    *)
(* not a list; when it is a list of n IDs, fetch returns a list of exactly *)
(* n results, the i-th belonging to the i-th ID, whichever IDs were        *)
(* downloaded and whichever were skipped as already present.               *)
C11_ResultShape ==
    FetchReturned =>
        IF fcall.pdb_ids.kind = "str"
        THEN /\ fret.value.kind = "one"
             /\ OwnerOf(fret.value.file) = fcall.pdb_ids.id
        ELSE /\ fret.value.kind = "list"
             /\ Len(fret.value.files) = Len(fcall.pdb_ids.ids)
             /\ \A i \in 1..Len(fcall.pdb_ids.ids) :
                    OwnerOf(fret.value.files[i]) = fcall.pdb_ids.ids[i]

\* a list call that skipped its first ID and downloaded its second
C11_Witness ==
    /\ FetchReturned
    /\ fcall.pdb_ids.kind = "list"
    /\ Len(fcall.pdb_ids.ids) = MaxIds
    /\ fcall.pdb_ids.ids[1] # fcall.pdb_ids.ids[2]
    /\ RequestsAt(1) = {}
    /\ RequestsAt(2) # {}
    /\ Len(fret.value.files) = MaxIds

(***************************************************************************)
(* The point sets of the fit, as the call left them on the heap.           *)
(***************************************************************************)
CallCentered == Centered(pre, call.fixed, call.mobile, call.ca_only)

\* X (fixed) and Y (mobile) of cov = np.dot(y.T, x)
FitX == heap[CallCentered.fix_centered]
FitY == heap[CallCentered.mob_centered]

ZeroMean(arr) == \A j \in Dim : ColumnSum(arr, j) = 0

CovarianceTaken == SingleCall /\ SizesMatch

(* C12: the centroid subtracted from each point set of the fit is the      *)
(* centroid of that same set, reduced to its landmarks when ca_only is     *)
(* true, so the sets X (fixed) and Y (mobile) that enter the covariance    *)
(* are both zero-mean, with ca_only true and false alike.                  *)
C12_ZeroMeanSets ==
    CovarianceTaken => ZeroMean(FitX) /\ ZeroMean(FitY)

\* the rows of an array whose atom carries the given name, in their order
RowsNamed(arr, atoms, name) ==
    Bind(SelectSeq([n \in 1..Len(arr) |-> n], LAMBDA n : atoms.atom_name[n] = name),
         LAMBDA idx : [k \in 1..Len(idx) |-> arr[idx[k]]])

\* the point sets of the fit as selected, with the centring taken back
SelectedX == ArrAdd(FitX, centroid(pre[call.fixed.coord]))
SelectedY == ArrAdd(FitY, centroid(pre[call.mobile.coord]))

(* C13: with ca_only the sets used for the fit are exactly the points of   *)
(* fixed and of mobile whose atom name equals "CA", in their original      *)
(* order; without it all points of both are used; the fitted structure     *)
(* always holds all points of the original mobile structure.               *)
C13_LandmarkSelection ==
    /\ CovarianceTaken =>
         /\ SelectedX = IF call.ca_only
                        THEN RowsNamed(pre[call.fixed.coord], call.fixed, "CA")
                        ELSE pre[call.fixed.coord]
         /\ SelectedY = IF call.ca_only
                        THEN RowsNamed(pre[call.mobile.coord], call.mobile, "CA")
                        ELSE pre[call.mobile.coord]
    /\ (SingleCall /\ Returned) =>
         Len(heap[ret.value.fitted.coord]) = Len(pre[call.mobile.coord])

(***************************************************************************)
(* BlastOnline: what the last operation shows                              *)
(***************************************************************************)
Constructed == self # None

FinishedFlag == IF Constructed THEN self._is_finished ELSE FALSE

\* the last operation was is_finished() on a started instance
AskedWhenStarted == bop.op = "is_finished" /\ bop.started

AnswersAsClaimed ==
    AskedWhenStarted =>
        IF bop.flagBefore
        THEN bop.status = "return" /\ bop.result = "True" /\ bop.sent = 0
        ELSE bop.sent = 1

(* C14: once is_finished() has observed the status READY and returned      *)
(* True, the finished flag never returns to False and every later          *)
(* is_finished() call on the started instance returns True without         *)
(* contacting the server; before that, every is_finished() call on a       *)
(* started instance makes exactly one server contact.                      *)
C14_StickyCompletion ==
    [][/\ FinishedFlag => FinishedFlag'
       /\ readySeen => FinishedFlag'
       /\ AnswersAsClaimed']_vars

\* is_finished() asked again after the run was seen to have finished
C14_Witness ==
    /\ AskedWhenStarted
    /\ bop.flagBefore
    /\ bop.result = "True"
    /\ bop.sent = 0
    /\ readySeen
    /\ contacts >= 2

\* the last step was a status poll made inside join()
PolledInJoin == bop.op = "is_finished" /\ bop.inJoin /\ bop.sent = 1

JoinReturned == bop.op = "join" /\ bop.status = "return"

(* C15: for a single instance that calls run() and then join(), every      *)
(* status poll made inside join() happens at least _contact_delay seconds  *)
(* after the previous contact recorded in _last_contact, so _contact()     *)
(* never reports the 'contacted too often' violation during join(); and    *)
(* join() returns only after a poll has reported READY.                    *)
C15_PollingDelay ==
    /\ PolledInJoin => bop.gap >= _contact_delay /\ ~bop.reported
    /\ (bop.op = "is_finished" /\ bop.inJoin) => bop.exc # "RuleViolationError"
    /\ JoinReturned => readySeen /\ FinishedFlag

\* join() polls a second time, as soon as it may, and hears READY
C15_Witness ==
    /\ PolledInJoin
    /\ bop.gap = _contact_delay
    /\ ~bop.flagBefore
    /\ bop.result = "True"
    /\ contacts >= 3
    /\ pc = "join_exit"

=============================================================================
